---- MODULE Spec2Model ----
(***************************************************************************)
(* A model of the identity subsystem of the proxy:                         *)
(*   src/src/identity/mod.rs       CSR, Name, Key, TrustAnchors, Crt,      *)
(*                                 CrtKey and the two rustls resolvers     *)
(*   src/src/transport/tls/mod.rs  the reasons for a missing identity and  *)
(*                                 their Display tokens                    *)
(*                                                                         *)
(* Byte strings and hostnames are sequences; Option and Result values are  *)
(* records with a boolean tag.  The crates the code calls (rustls, webpki) *)
(* and the crate-local dns module are modelled by what the code relies on. *)
(***************************************************************************)
EXTENDS Integers, Sequences, FiniteSets, TLC

VARIABLES
    now,        \* the wall clock read by the certificate validator
    anchors,    \* the TrustAnchors loaded at process start
    active,     \* the shared handle to the active CrtKey (Option)
    conns,      \* per connection: its handshake's position, snapshot and result
    certified,  \* the last call of TrustAnchors::certify: its arguments and result
    pem,        \* a call of TrustAnchors::from_pem: its argument and result
    csr,        \* a call of CSR::from_der / to_vec: argument, value, copy
    sni,        \* a call of Name::from_sni_hostname: argument and result
    fmt         \* the formatter the reasons are written to, with what was rendered

vars == <<now, anchors, active, conns, certified, pem, csr, sni, fmt>>

----------------------------------------------------------------------------
(* Bounds of the model *)

MaxTime == 2
MaxOffered == 2
MaxBundle == 3
MaxDerLen == 3
MaxHostLen == 3
MaxRendered == 3

----------------------------------------------------------------------------
(* Option, Result and slices *)

None == [some |-> FALSE]
Some(v) == [some |-> TRUE, v |-> v]

Ok(v) == [ok |-> TRUE, v |-> v]
Err(e) == [ok |-> FALSE, e |-> e]

Range(s) == {s[i] : i \in 1..Len(s)}

\* <[T]>::contains
Contains(s, x) == \E i \in 1..Len(s) : s[i] = x

SeqsUpTo(S, n) == UNION {[1..k -> S] : k \in 0..n}

----------------------------------------------------------------------------
(* CSR *)

DerBytes == {0, 48, 255}

CSR_from_der_unchecked(der) == Some([bytes |-> der])

CSR_from_der(der) ==
    IF Len(der) = 0
    THEN None
    ELSE Some([bytes |-> der])

CSR_to_vec(c) == [i \in 1..Len(c.bytes) |-> c.bytes[i]]

----------------------------------------------------------------------------
(* Name *)

HostBytes == {"a", "B", ".", "!"}

\* u8::to_ascii_lowercase, on the bytes of the model
to_ascii_lowercase(b) == IF b = "B" THEN "b" ELSE b

\* The bytes a DNS label may hold
IsLabelByte(b) == b \in {"a", "b", "B"}

\* The DNS-name validator: labels of label bytes separated by ".", none of them
\* empty; one trailing "." (an absolute name) is accepted.
IsValidDnsName(s) ==
    /\ Len(s) > 0
    /\ \A i \in 1..Len(s) : IsLabelByte(s[i]) \/ s[i] = "."
    /\ s[1] # "."
    /\ \A i \in 1..(Len(s) - 1) : ~(s[i] = "." /\ s[i + 1] = ".")

\* dns::Name::try_from(&[u8]): the validated name, stored normalized
dns_Name_try_from(s) ==
    IF IsValidDnsName(s)
    THEN Ok([dns |-> [i \in 1..Len(s) |-> to_ascii_lowercase(s[i])]])
    ELSE Err("InvalidName")

\* <[u8]>::last
Last(s) == IF Len(s) = 0 THEN None ELSE Some(s[Len(s)])

Name_from_sni_hostname_no_dot_check(hostname) ==
    [res |-> dns_Name_try_from(hostname), validated |-> <<hostname>>]

\* Name::from_sni_hostname: res is what it returns, validated the arguments of
\* the calls of the DNS-name validator it made.
Name_from_sni_hostname(hostname) ==
    IF Last(hostname) = Some(".")
    THEN [res |-> Err("InvalidName"), validated |-> <<>>]
    ELSE [res |-> dns_Name_try_from(hostname), validated |-> <<hostname>>]

\* impl AsRef<str> for Name
Name_as_ref(n) == n.dns

----------------------------------------------------------------------------
(* The reasons for a missing identity, and their tokens *)

Loopback == [enum |-> "ReasonForNoPeerIdentity", tag |-> "Loopback"]
NoAuthorityInHttpRequest ==
    [enum |-> "ReasonForNoPeerIdentity", tag |-> "NoAuthorityInHttpRequest"]
NotHttp == [enum |-> "ReasonForNoPeerIdentity", tag |-> "NotHttp"]
NotProvidedByServiceDiscovery ==
    [enum |-> "ReasonForNoPeerIdentity", tag |-> "NotProvidedByServiceDiscovery"]
NotProvidedByClient ==
    [enum |-> "ReasonForNoPeerIdentity", tag |-> "NotProvidedByClient"]

ReasonForNoPeerIdentity ==
    {Loopback, NoAuthorityInHttpRequest, NotHttp, NotProvidedByServiceDiscovery,
     NotProvidedByClient}

Disabled == [enum |-> "ReasonForNoIdentity", tag |-> "Disabled"]
NoPeerIdentity(r) == [enum |-> "ReasonForNoIdentity", tag |-> "NoPeerIdentity", r |-> r]

ReasonForNoIdentity == {Disabled} \cup {NoPeerIdentity(r) : r \in ReasonForNoPeerIdentity}

ReasonForNoPeerIdentity_fmt_renamed(r) ==
    CASE r = Loopback -> "loopback"
      [] r = NoAuthorityInHttpRequest -> "no_authority_in_http_request"
      [] r = NotHttp -> "not_http"
      [] r = NotProvidedByServiceDiscovery -> "not_provided_by_client"
      [] r = NotProvidedByClient -> "not_provided_by_client"

\* impl fmt::Display for ReasonForNoPeerIdentity: what write! appends
ReasonForNoPeerIdentity_fmt(r) ==
    CASE r = Loopback -> "loopback"
      [] r = NoAuthorityInHttpRequest -> "no_authority_in_http_request"
      [] r = NotHttp -> "not_http"
      [] r = NotProvidedByServiceDiscovery -> "not_provided_by_service_discovery"
      [] r = NotProvidedByClient -> "not_provided_by_client"

\* impl fmt::Display for ReasonForNoIdentity
ReasonForNoIdentity_fmt(r) ==
    CASE r = Disabled -> "disabled"
      [] r.tag = "NoPeerIdentity" -> ReasonForNoPeerIdentity_fmt(r.r)

\* fmt::Display::fmt, dispatched on the type of the value
Display_fmt(r) ==
    IF r.enum = "ReasonForNoIdentity"
    THEN ReasonForNoIdentity_fmt(r)
    ELSE ReasonForNoPeerIdentity_fmt(r)

----------------------------------------------------------------------------
(* Keys and the signing adapter *)

\* rustls::SignatureScheme, the members the model offers
SignatureSchemes == {"ECDSA_NISTP256_SHA256", "ED25519"}

SIGNATURE_ALG_RUSTLS_SCHEME == "ECDSA_NISTP256_SHA256"

\* The offered-scheme lists of a handshake
OfferedLists == SeqsUpTo(SignatureSchemes, MaxOffered)

\* The key pairs Key::from_pkcs8 has loaded
Keys == {"k1", "k2"}

SigningKey(k) == [keypair |-> k]
Signer(k) == [keypair |-> k]

SigningKey_choose_scheme_out_of_sync(self, offered) ==
    IF Contains(offered, "ED25519")
    THEN Some(Signer(self.keypair))
    ELSE None

\* impl rustls::sign::SigningKey for SigningKey: choose_scheme
SigningKey_choose_scheme(self, offered) ==
    IF Contains(offered, SIGNATURE_ALG_RUSTLS_SCHEME)
    THEN Some(Signer(self.keypair))
    ELSE None

\* impl rustls::sign::Signer for Signer: get_scheme
Signer_get_scheme(self) == SIGNATURE_ALG_RUSTLS_SCHEME

----------------------------------------------------------------------------
(* Certificates: what the DER of a certificate says, as far as the validator
   reads it.  A certificate that does not parse has parses = FALSE. *)

Times == 0..MaxTime

Certificate(id, parses, ca, issuer, names, notBefore, notAfter) ==
    [id |-> id, parses |-> parses, ca |-> ca, issuer |-> issuer, names |-> names,
     notBefore |-> notBefore, notAfter |-> notAfter]

\* The fixture: two roots, an intermediate of the first, leaves, a broken DER
RootA == Certificate("rootA", TRUE, TRUE, "rootA", {}, 0, MaxTime)
RootB == Certificate("rootB", TRUE, TRUE, "rootB", {}, 0, MaxTime)
Inter == Certificate("inter", TRUE, TRUE, "rootA", {}, 0, MaxTime)
LeafA == Certificate("leafA", TRUE, FALSE, "rootA", {<<"a">>}, 0, 1)
LeafB == Certificate("leafB", TRUE, FALSE, "inter", {<<"b">>}, 1, MaxTime)
LeafX == Certificate("leafX", TRUE, FALSE, "rootB", {<<"a">>}, 0, MaxTime)
BadDer == Certificate("badDer", FALSE, FALSE, "", {}, 0, 0)

NameA == Name_from_sni_hostname(<<"a">>).res.v
NameB == Name_from_sni_hostname(<<"b">>).res.v

\* webpki::EndEntityCert::from: an empty input, or a broken DER, fails to parse
EndEntityCert_from(c) ==
    IF c.some /\ c.v.parses THEN Ok(c.v) ELSE Err("BadDER")

\* webpki::EndEntityCert::verify_is_valid_for_dns_name
verify_is_valid_for_dns_name(cert, dns_name) ==
    IF dns_name \in cert.names THEN Ok("valid") ELSE Err("CertNotValidForName")

\* webpki's check of a certificate's validity period
check_validity(cert, time) ==
    IF time < cert.notBefore THEN Err("CertNotValidYet")
    ELSE IF time > cert.notAfter THEN Err("CertExpired")
    ELSE Ok("valid")

\* webpki's path building: cert is valid at time and is issued by a trust anchor,
\* or by an intermediate (a CA certificate) for which the same holds.
RECURSIVE build_chain(_, _, _, _, _)
build_chain(roots, intermediates, cert, time, depth) ==
    IF ~check_validity(cert, time).ok THEN check_validity(cert, time)
    ELSE IF \E r \in roots : r.id = cert.issuer THEN Ok("valid")
    ELSE IF /\ depth > 0
            /\ \E i \in 1..Len(intermediates) :
                  /\ intermediates[i].parses
                  /\ intermediates[i].ca
                  /\ intermediates[i].id = cert.issuer
                  /\ build_chain(roots, intermediates, intermediates[i], time, depth - 1).ok
         THEN Ok("valid")
    ELSE Err("UnknownIssuer")

\* rustls's ServerCertVerifier::verify_server_cert of ClientConfig::new():
\* the chain must hold a leaf that parses, that chains to a root of the store at
\* the current time, and that is valid for the name.
verify_server_cert(roots, presented_certs, dns_name, time) ==
    IF Len(presented_certs) = 0 THEN Err("NoCertificatesPresented")
    ELSE IF ~EndEntityCert_from(Some(presented_certs[1])).ok THEN Err("BadDER")
    ELSE LET cert == presented_certs[1]
             chain == build_chain(roots, Tail(presented_certs), cert, time,
                                  Len(presented_certs))
         IN  IF ~chain.ok THEN chain
             ELSE verify_is_valid_for_dns_name(cert, Name_as_ref(dns_name))

----------------------------------------------------------------------------
(* TrustAnchors *)

\* The entries of a PEM bundle: a root certificate, a section whose DER is no
\* certificate, a section that is no well-formed PEM
PemEntries == {"rootA", "rootB", "junk", "malformed"}

Bundles == SeqsUpTo(PemEntries, MaxBundle)

RootOf(e) == IF e = "rootA" THEN RootA ELSE RootB

\* rustls::RootCertStore::add_pem_file on an empty store: an error when the PEM
\* does not parse, else the store and the numbers of sections added and skipped
add_pem_file(s) ==
    IF Contains(s, "malformed") THEN Err("()")
    ELSE LET good == {i \in 1..Len(s) : s[i] \in {"rootA", "rootB"}}
         IN  Ok([roots |-> {RootOf(s[i]) : i \in good},
                 added |-> Cardinality(good),
                 skipped |-> Len(s) - Cardinality(good)])

TrustAnchors_from_pem_skipped_is_fatal(s) ==
    LET r == add_pem_file(s)
    IN  IF ~r.ok THEN None
        ELSE IF r.v.skipped # 0 \/ r.v.added = 0 THEN None
        ELSE Some([roots |-> r.v.roots])

\* TrustAnchors::from_pem
TrustAnchors_from_pem(s) ==
    LET r == add_pem_file(s)
    IN  IF ~r.ok THEN None
        ELSE IF r.v.added = 0 THEN None
        ELSE Some([roots |-> r.v.roots])

\* Crt::new
Crt_new(name, leaf, intermediates, expiry) ==
    [name |-> name, chain |-> <<leaf>> \o intermediates, expiry |-> expiry]

\* rustls::sign::CertifiedKey::new
CertifiedKey_new(cert, key) == [cert |-> cert, key |-> key]

InvalidCrt(e) == [InvalidCrt |-> e]

TrustAnchors_certify_checks_expiry(self, key, crt, time) ==
    LET verified == verify_server_cert(self.roots, crt.chain, crt.name, time)
    IN  IF ~verified.ok THEN Err(InvalidCrt(verified.e))
        ELSE IF crt.expiry < time THEN Err(InvalidCrt("CertExpired"))
        ELSE Ok([name |-> crt.name,
                 expiry |-> crt.expiry,
                 key |-> CertifiedKey_new(crt.chain, SigningKey(key))])

\* TrustAnchors::certify; time is the clock the validator reads
TrustAnchors_certify(self, key, crt, time) ==
    LET verified == verify_server_cert(self.roots, crt.chain, crt.name, time)
    IN  IF ~verified.ok THEN Err(InvalidCrt(verified.e))
        ELSE Ok([name |-> crt.name,
                 expiry |-> crt.expiry,
                 key |-> CertifiedKey_new(crt.chain, SigningKey(key))])

----------------------------------------------------------------------------
(* CrtKey: the resolvers *)

CrtKey_resolve__ignores_schemes(self, sigschemes) == Some(self.key)

CrtKey_resolve__leaf_only(self, sigschemes) ==
    IF ~Contains(sigschemes, SIGNATURE_ALG_RUSTLS_SCHEME)
    THEN None
    ELSE Some([self.key EXCEPT !.cert = <<self.key.cert[1]>>])

\* CrtKey::resolve_
CrtKey_resolve_(self, sigschemes) ==
    IF ~Contains(sigschemes, SIGNATURE_ALG_RUSTLS_SCHEME)
    THEN None
    ELSE Some(self.key)

ResolvesClientCert_resolve_filters_issuers(self, acceptable_issuers, sigschemes) ==
    IF Len(acceptable_issuers) > 0
          /\ ~\E i \in 1..Len(self.key.cert) :
                 Contains(acceptable_issuers, self.key.cert[i].issuer)
    THEN None
    ELSE CrtKey_resolve_(self, sigschemes)

\* impl rustls::ResolvesClientCert for CrtKey: resolve
ResolvesClientCert_resolve(self, acceptable_issuers, sigschemes) ==
    CrtKey_resolve_(self, sigschemes)

\* <[T]>::first
First(s) == IF Len(s) = 0 THEN None ELSE Some(s[1])

ResolvesServerCert_resolve_default_cert(self, server_name, sigschemes) ==
    IF ~server_name.some THEN CrtKey_resolve_(self, sigschemes)
    ELSE LET parsed == EndEntityCert_from(First(self.key.cert))
         IN  IF ~parsed.ok THEN None
             ELSE IF ~verify_is_valid_for_dns_name(parsed.v, server_name.v).ok THEN None
             ELSE CrtKey_resolve_(self, sigschemes)

\* impl rustls::ResolvesServerCert for CrtKey: resolve
ResolvesServerCert_resolve(self, server_name, sigschemes) ==
    IF ~server_name.some THEN None
    ELSE LET parsed == EndEntityCert_from(First(self.key.cert))
         IN  IF ~parsed.ok THEN None
             ELSE IF ~verify_is_valid_for_dns_name(parsed.v, server_name.v).ok THEN None
             ELSE CrtKey_resolve_(self, sigschemes)

----------------------------------------------------------------------------
(* The state of the process: the clock, the trust anchors, the active
   identity, and the connections whose handshakes resolve against it *)

Conns == {"c1", "c2"}

\* The key of the process, loaded once at startup
ProcessKey == "k1"

\* The SNI names a ClientHello may carry (none, or a validated DNS name)
ServerNames == {None, Some(<<"a">>), Some(<<"b">>)}

\* The acceptable-issuer lists a CertificateRequest may carry
IssuerLists == {<<>>, <<"rootA">>, <<"rootB">>}

\* The chains the issuance workflow hands to the rotation driver
IssuedCrts ==
    {Crt_new(NameA, LeafA, <<>>, 1),
     Crt_new(NameB, LeafB, <<Inter>>, MaxTime),
     Crt_new(NameB, LeafA, <<>>, 1),
     Crt_new(NameA, LeafX, <<>>, MaxTime)}

\* Every Crt the model certifies
Crts ==
    {Crt_new(n, l, is, e) :
        n \in {NameA, NameB},
        l \in {LeafA, LeafB, LeafX, BadDer},
        is \in {<<>>, <<Inter>>},
        e \in Times}

Idle ==
    [pc |-> "idle", snap |-> None, role |-> "none", server_name |-> None,
     acceptable_issuers |-> <<>>, sigschemes |-> <<>>, result |-> None]

InitIdentity ==
    /\ now = 0
    /\ anchors = TrustAnchors_from_pem(<<"rootA">>).v
    /\ active = None
    /\ conns = [c \in Conns |-> Idle]

InitCertified == certified = None
InitPem == pem = [s |-> <<>>, pc |-> "idle", out |-> None]
InitCsr == csr = [der |-> <<>>, pc |-> "idle", value |-> None, vec |-> <<>>]
InitSni == sni = [hostname |-> <<>>, pc |-> "idle", out |-> Err("none"), validated |-> <<>>]
InitFmt == fmt = [rendered |-> <<>>, out |-> <<>>]

\* The clock advances
Tick ==
    /\ now < MaxTime
    /\ now' = now + 1
    /\ UNCHANGED <<anchors, active, conns, certified, pem, csr, sni, fmt>>

\* The rotation driver certifies a freshly issued chain and, when that
\* succeeds, replaces the shared handle by the new CrtKey in one step.
Rotate(crt) ==
    LET r == TrustAnchors_certify(anchors, ProcessKey, crt, now)
    IN  /\ r.ok
        /\ active' = Some(r.v)
        /\ UNCHANGED <<now, anchors, conns, certified, pem, csr, sni, fmt>>

\* A connection starts its handshake: it takes the CrtKey the handle holds.
Begin(c) ==
    /\ conns[c].pc = "idle"
    /\ active.some
    /\ conns' = [conns EXCEPT ![c] = [Idle EXCEPT !.pc = "handshaking", !.snap = active]]
    /\ UNCHANGED <<now, anchors, active, certified, pem, csr, sni, fmt>>

\* The handshake of a client-role connection asks for the certificate.
ResolveClient(c, acceptable_issuers, sigschemes) ==
    /\ conns[c].pc = "handshaking"
    /\ conns' = [conns EXCEPT ![c] =
          [@ EXCEPT !.pc = "resolved",
                    !.role = "client",
                    !.acceptable_issuers = acceptable_issuers,
                    !.sigschemes = sigschemes,
                    !.result = ResolvesClientCert_resolve(
                                   conns[c].snap.v, acceptable_issuers, sigschemes)]]
    /\ UNCHANGED <<now, anchors, active, certified, pem, csr, sni, fmt>>

\* The handshake of a server-role connection asks for the certificate.
ResolveServer(c, server_name, sigschemes) ==
    /\ conns[c].pc = "handshaking"
    /\ conns' = [conns EXCEPT ![c] =
          [@ EXCEPT !.pc = "resolved",
                    !.role = "server",
                    !.server_name = server_name,
                    !.sigschemes = sigschemes,
                    !.result = ResolvesServerCert_resolve(
                                   conns[c].snap.v, server_name, sigschemes)]]
    /\ UNCHANGED <<now, anchors, active, certified, pem, csr, sni, fmt>>

\* The connection ends.
End(c) ==
    /\ conns[c].pc = "resolved"
    /\ conns' = [conns EXCEPT ![c] = Idle]
    /\ UNCHANGED <<now, anchors, active, certified, pem, csr, sni, fmt>>

Init ==
    /\ InitIdentity
    /\ InitCertified /\ InitPem /\ InitCsr /\ InitSni /\ InitFmt

Next ==
    \/ Tick
    \/ \E crt \in IssuedCrts : Rotate(crt)
    \/ \E c \in Conns : Begin(c)
    \/ \E c \in Conns, is \in IssuerLists, ss \in OfferedLists : ResolveClient(c, is, ss)
    \/ \E c \in Conns, sn \in ServerNames, ss \in OfferedLists : ResolveServer(c, sn, ss)
    \/ \E c \in Conns : End(c)

Spec == Init /\ [][Next]_vars

----------------------------------------------------------------------------
(* TrustAnchors::certify, on every chain of the fixture *)

Certify(key, crt) ==
    /\ certified' = Some([key |-> key, crt |-> crt, time |-> now,
                          res |-> TrustAnchors_certify(anchors, key, crt, now)])
    /\ UNCHANGED <<now, anchors, active, conns, pem, csr, sni, fmt>>

InitCertify ==
    /\ now = 0
    /\ anchors \in {TrustAnchors_from_pem(b).v :
                       b \in {x \in Bundles : TrustAnchors_from_pem(x).some}}
    /\ active = None
    /\ conns = [c \in Conns |-> Idle]
    /\ InitCertified /\ InitPem /\ InitCsr /\ InitSni /\ InitFmt

NextCertify ==
    \/ Tick
    \/ \E key \in Keys, crt \in Crts : Certify(key, crt)

SpecCertify == InitCertify /\ [][NextCertify]_vars

----------------------------------------------------------------------------
(* TrustAnchors::from_pem, on every bundle *)

FromPem ==
    /\ pem.pc = "start"
    /\ pem' = [pem EXCEPT !.pc = "done", !.out = TrustAnchors_from_pem(pem.s)]
    /\ UNCHANGED <<now, anchors, active, conns, certified, csr, sni, fmt>>

InitFromPem ==
    /\ InitIdentity
    /\ pem \in {[s |-> b, pc |-> "start", out |-> None] : b \in Bundles}
    /\ InitCertified /\ InitCsr /\ InitSni /\ InitFmt

NextPem == FromPem

SpecPem == InitFromPem /\ [][NextPem]_vars

----------------------------------------------------------------------------
(* CSR::from_der and CSR::to_vec, on every byte sequence *)

FromDer ==
    /\ csr.pc = "start"
    /\ csr' = [csr EXCEPT !.pc = "built", !.value = CSR_from_der(csr.der)]
    /\ UNCHANGED <<now, anchors, active, conns, certified, pem, sni, fmt>>

ToVec ==
    /\ csr.pc = "built"
    /\ csr.value.some
    /\ csr' = [csr EXCEPT !.pc = "copied", !.vec = CSR_to_vec(csr.value.v)]
    /\ UNCHANGED <<now, anchors, active, conns, certified, pem, sni, fmt>>

InitFromDer ==
    /\ InitIdentity
    /\ csr \in {[der |-> d, pc |-> "start", value |-> None, vec |-> <<>>] :
                   d \in SeqsUpTo(DerBytes, MaxDerLen)}
    /\ InitCertified /\ InitPem /\ InitSni /\ InitFmt

NextCsr == FromDer \/ ToVec

SpecCsr == InitFromDer /\ [][NextCsr]_vars

----------------------------------------------------------------------------
(* Name::from_sni_hostname, on every hostname *)

FromSniHostname ==
    /\ sni.pc = "start"
    /\ LET r == Name_from_sni_hostname(sni.hostname)
       IN  sni' = [sni EXCEPT !.pc = "done", !.out = r.res, !.validated = r.validated]
    /\ UNCHANGED <<now, anchors, active, conns, certified, pem, csr, fmt>>

InitFromSni ==
    /\ InitIdentity
    /\ sni \in {[hostname |-> h, pc |-> "start", out |-> Err("none"), validated |-> <<>>] :
                   h \in SeqsUpTo(HostBytes, MaxHostLen)}
    /\ InitCertified /\ InitPem /\ InitCsr /\ InitFmt

NextSni == FromSniHostname

SpecSni == InitFromSni /\ [][NextSni]_vars

----------------------------------------------------------------------------
(* Display of the reasons: each write! appends its token to the formatter *)

Render(r) ==
    /\ Len(fmt.rendered) < MaxRendered
    /\ fmt' = [rendered |-> Append(fmt.rendered, r),
               out |-> Append(fmt.out, Display_fmt(r))]
    /\ UNCHANGED <<now, anchors, active, conns, certified, pem, csr, sni>>

NextFmt == \E r \in ReasonForNoIdentity \cup ReasonForNoPeerIdentity : Render(r)

SpecFmt == Init /\ [][NextFmt]_vars

----------------------------------------------------------------------------
(* The claims *)

Supported == "ECDSA_NISTP256_SHA256"

Resolved(c) == conns[c].pc = "resolved"

\* The leaf of the chain a connection resolved against
LeafOf(c) == conns[c].snap.v.key.cert[1]

\* C1: whenever the offered signature schemes do not contain
\* ECDSA_NISTP256_SHA256, a resolve of either role returned nothing, whatever
\* the SNI name, the acceptable issuers and the validity of the chain are.
C1_NoSchemeNoCertificate ==
    \A c \in Conns :
        (Resolved(c) /\ ~(Supported \in Range(conns[c].sigschemes)))
            => conns[c].result = None

\* Both roles have resolved with a non-empty list without the scheme; the server's
\* SNI name is one the leaf is valid for, and the client's chain has expired.
C1_Witness ==
    \E c, d \in Conns :
        /\ Resolved(c) /\ conns[c].role = "client"
        /\ conns[c].sigschemes = <<"ED25519">>
        /\ now > LeafOf(c).notAfter
        /\ conns[c].result = None
        /\ Resolved(d) /\ conns[d].role = "server"
        /\ conns[d].sigschemes = <<"ED25519", "ED25519">>
        /\ conns[d].server_name.some
        /\ conns[d].server_name.v \in LeafOf(d).names
        /\ conns[d].result = None

\* C2: a server-role resolve returns the certified key exactly when an SNI name
\* was supplied, the leaf of the chain parses and is valid for that name, and the
\* supported scheme is offered; otherwise it returns nothing.
C2_ServerResolve ==
    \A c \in Conns :
        (Resolved(c) /\ conns[c].role = "server") =>
            LET cert == conns[c].snap.v.key.cert
                good == /\ conns[c].server_name.some
                        /\ Len(cert) > 0
                        /\ cert[1].parses
                        /\ conns[c].server_name.v \in cert[1].names
                        /\ Supported \in Range(conns[c].sigschemes)
            IN  /\ conns[c].result.some <=> good
                /\ conns[c].result.some => conns[c].result.v = conns[c].snap.v.key

\* One server resolve returned the key for its SNI name; another, with the
\* scheme offered but no SNI name, returned nothing.
C2_Witness ==
    \E c, d \in Conns :
        /\ Resolved(c) /\ conns[c].role = "server"
        /\ conns[c].server_name = Some(<<"a">>)
        /\ conns[c].result.some
        /\ Resolved(d) /\ conns[d].role = "server"
        /\ conns[d].server_name = None
        /\ Supported \in Range(conns[d].sigschemes)
        /\ conns[d].result = None

\* C3: a client-role resolve returns the certified key exactly when the
\* supported scheme is offered, and two client resolves against the same CrtKey
\* with the same schemes agree whatever their acceptable-issuer lists are.
C3_ClientResolve ==
    /\ \A c \in Conns :
          (Resolved(c) /\ conns[c].role = "client") =>
              /\ conns[c].result.some <=> Supported \in Range(conns[c].sigschemes)
              /\ conns[c].result.some => conns[c].result.v = conns[c].snap.v.key
    /\ \A c, d \in Conns :
          (/\ Resolved(c) /\ conns[c].role = "client"
           /\ Resolved(d) /\ conns[d].role = "client"
           /\ conns[c].snap = conns[d].snap
           /\ conns[c].sigschemes = conns[d].sigschemes)
              => conns[c].result = conns[d].result

\* Two client resolves on one CrtKey with the same schemes: one with no issuers,
\* one with an issuer list that does not name the chain's issuer; both got the key.
C3_Witness ==
    \E c, d \in Conns :
        /\ Resolved(c) /\ conns[c].role = "client"
        /\ Resolved(d) /\ conns[d].role = "client"
        /\ conns[c].snap = conns[d].snap
        /\ conns[c].sigschemes = conns[d].sigschemes
        /\ conns[c].acceptable_issuers = <<>>
        /\ conns[d].acceptable_issuers = <<"rootB">>
        /\ LeafOf(d).issuer = "rootA"
        /\ conns[c].result.some /\ conns[d].result.some

\* C9: a resolution leaves the CrtKey it runs against and the shared handle as
\* they are; a key returned to a connection is the key of the snapshot it was
\* resolved against and stays so while rotations replace the handle; a handshake
\* that wants to resolve can always do so at once.
C9_RotationAndResolution ==
    /\ [](\A c \in Conns :
            /\ (Resolved(c) /\ conns[c].result.some)
                  => conns[c].result.v = conns[c].snap.v.key
            /\ conns[c].pc = "handshaking"
                  => /\ ENABLED (\E is \in IssuerLists, ss \in OfferedLists :
                                    ResolveClient(c, is, ss))
                     /\ ENABLED (\E sn \in ServerNames, ss \in OfferedLists :
                                    ResolveServer(c, sn, ss)))
    /\ [][\A c \in Conns :
            /\ (conns[c].pc = "handshaking" /\ conns'[c].pc = "resolved")
                  => (conns'[c].snap = conns[c].snap /\ active' = active)
            /\ (conns[c].pc = "handshaking" /\ conns'[c].pc = "handshaking")
                  => conns'[c] = conns[c]
            /\ (Resolved(c) /\ conns'[c].pc = "resolved")
                  => conns'[c] = conns[c]]_vars

\* A connection holds a key resolved against a chain with an intermediate, and
\* another is in its handshake, both on a snapshot a rotation has since replaced.
C9_Witness ==
    \E c, d \in Conns :
        /\ Resolved(c) /\ conns[c].result.some
        /\ Len(conns[c].snap.v.key.cert) > 1
        /\ conns[c].snap # active
        /\ conns[d].pc = "handshaking"
        /\ conns[d].snap # active

\* C10: for the list a connection offered, choose_scheme of its snapshot's key
\* yields a signer exactly when the list contains ECDSA_NISTP256_SHA256, and the
\* signer's scheme is that one; so whenever a resolver returned a key, the key
\* yields a signer whose scheme is among the offered ones.
C10_SchemeNegotiation ==
    \A c \in Conns :
        Resolved(c) =>
            LET signer == SigningKey_choose_scheme(conns[c].snap.v.key.key,
                                                   conns[c].sigschemes)
            IN  /\ signer.some <=> Supported \in Range(conns[c].sigschemes)
                /\ signer.some => Signer_get_scheme(signer.v) = Supported
                /\ conns[c].result.some =>
                      LET s == SigningKey_choose_scheme(conns[c].result.v.key,
                                                        conns[c].sigschemes)
                      IN  /\ s.some
                          /\ Signer_get_scheme(s.v) \in Range(conns[c].sigschemes)

\* A server resolve returned a key for a list that offers another scheme first,
\* and the key yields a signer; a client offered a list without the scheme, for
\* which its snapshot's key yields none.
C10_Witness ==
    \E c, d \in Conns :
        /\ Resolved(c) /\ conns[c].role = "server"
        /\ conns[c].sigschemes = <<"ED25519", "ECDSA_NISTP256_SHA256">>
        /\ conns[c].result.some
        /\ SigningKey_choose_scheme(conns[c].result.v.key, conns[c].sigschemes).some
        /\ Resolved(d) /\ conns[d].role = "client"
        /\ conns[d].sigschemes = <<"ED25519">>
        /\ ~SigningKey_choose_scheme(conns[d].snap.v.key.key, conns[d].sigschemes).some

\* The ids of the certificates that chain to a root of the store through the
\* intermediates of a chain (the fixture's paths have at most one intermediate)
Rooted(roots, chain) ==
    \/ \E r \in roots : r.id = chain[1].issuer
    \/ \E i \in 2..Len(chain) :
          /\ chain[i].id = chain[1].issuer
          /\ \E r \in roots : r.id = chain[i].issuer

\* C4: certify returns a CrtKey exactly when the validator accepts the chain for
\* the Crt's name at the current time; the CrtKey carries the Crt's name, expiry
\* and chain and the given key; a rejection is returned as InvalidCrt of the
\* validator's error; a chain that is not rooted in the anchors or is outside its
\* validity period is rejected; the expiry field does not decide the outcome.
C4_Certify ==
    certified.some =>
        LET call == certified.v
            crt == call.crt
            accepted == verify_server_cert(anchors.roots, crt.chain, crt.name, call.time)
        IN  /\ call.res.ok <=> accepted.ok
            /\ call.res.ok =>
                  call.res.v = [name |-> crt.name, expiry |-> crt.expiry,
                                key |-> [cert |-> crt.chain,
                                         key |-> [keypair |-> call.key]]]
            /\ ~call.res.ok => call.res.e = [InvalidCrt |-> accepted.e]
            /\ call.res.ok =>
                  /\ crt.chain[1].parses
                  /\ Rooted(anchors.roots, crt.chain)
                  /\ call.time >= crt.chain[1].notBefore
                  /\ call.time <= crt.chain[1].notAfter
                  /\ crt.name.dns \in crt.chain[1].names
            /\ \A e \in Times :
                  TrustAnchors_certify(anchors, call.key, [crt EXCEPT !.expiry = e],
                                       call.time).ok = call.res.ok

\* certify accepted, with the second key, a chain through the intermediate whose
\* Crt carries an expiry that has already passed.
C4_Witness ==
    /\ certified.some
    /\ certified.v.res.ok
    /\ certified.v.key = "k2"
    /\ Len(certified.v.crt.chain) > 1
    /\ certified.v.crt.chain[1].issuer = "inter"
    /\ certified.v.crt.expiry < certified.v.time

\* C6: from_pem returns an anchor set exactly when the bundle parses and at
\* least one of its entries was added; the set then holds the added roots and is
\* not empty, whether or not other entries were skipped.
C6_FromPem ==
    pem.pc = "done" =>
        LET addedEntries == {i \in 1..Len(pem.s) : pem.s[i] \in {"rootA", "rootB"}}
            parses == \A i \in 1..Len(pem.s) : pem.s[i] # "malformed"
        IN  /\ pem.out.some <=> (parses /\ addedEntries # {})
            /\ pem.out.some =>
                  /\ pem.out.v.roots # {}
                  /\ pem.out.v.roots = {RootOf(pem.s[i]) : i \in addedEntries}

\* from_pem returned an anchor set for a bundle with a skipped entry.
C6_Witness ==
    /\ pem.pc = "done"
    /\ pem.out.some
    /\ \E i \in 1..Len(pem.s) : pem.s[i] = "junk"

\* C8: from_der succeeds for every non-empty byte sequence and to_vec returns
\* those bytes; for the empty sequence from_der returns nothing; no CSR is empty.
C8_Csr ==
    /\ csr.pc \in {"built", "copied"} =>
          /\ csr.value.some <=> Len(csr.der) > 0
          /\ csr.value.some => Len(csr.value.v.bytes) > 0
    /\ csr.pc = "copied" => csr.vec = csr.der

\* to_vec has copied a CSR of several bytes.
C8_Witness ==
    /\ csr.pc = "copied"
    /\ Len(csr.der) > 1
    /\ csr.vec = csr.der

EndsWithDot(h) == Len(h) > 0 /\ h[Len(h)] = "."

DocumentedToken(tag) ==
    CASE tag = "Disabled" -> "disabled"
      [] tag = "Loopback" -> "loopback"
      [] tag = "NoAuthorityInHttpRequest" -> "no_authority_in_http_request"
      [] tag = "NotHttp" -> "not_http"
      [] tag = "NotProvidedByServiceDiscovery" -> "not_provided_by_service_discovery"
      [] tag = "NotProvidedByClient" -> "not_provided_by_client"

\* C7: every reason is written as its documented token, NoPeerIdentity(r) as r
\* is, and two distinct reasons of one type are written differently.
C7_Tokens ==
    /\ \A i \in 1..Len(fmt.out) :
          LET r == fmt.rendered[i]
          IN  IF r.tag = "NoPeerIdentity"
              THEN fmt.out[i] = DocumentedToken(r.r.tag)
              ELSE fmt.out[i] = DocumentedToken(r.tag)
    /\ \A i, j \in 1..Len(fmt.out) :
          /\ (fmt.rendered[i].tag = "NoPeerIdentity" /\ fmt.rendered[j] = fmt.rendered[i].r)
                => fmt.out[i] = fmt.out[j]
          /\ (fmt.rendered[i].enum = fmt.rendered[j].enum
                /\ fmt.rendered[i] # fmt.rendered[j])
                => fmt.out[i] # fmt.out[j]

\* Disabled, a peer reason and the same reason wrapped have been written.
C7_Witness ==
    /\ Len(fmt.out) >= 3
    /\ fmt.rendered[1] = Disabled
    /\ fmt.rendered[2] = NotProvidedByServiceDiscovery
    /\ fmt.rendered[3] = NoPeerIdentity(NotProvidedByServiceDiscovery)

====
